---- MODULE Spec2Model ----
(***************************************************************************)
(* The in-memory blob descriptor cache of the registry                     *)
(* (registry/storage/cache/memory): one adaptive store shared by the       *)
(* global provider and by every repository-scoped view.                    *)
(*                                                                         *)
(* The store (lru.ARCCache), the digest type (digest.Digest), the          *)
(* descriptor check (cache.ValidateDescriptor) and the repository name     *)
(* parser (reference.ParseNormalizedNamed) are called by the source but    *)
(* not part of it; they are modelled from their contract in spec.md.       *)
(***************************************************************************)
EXTENDS Integers, Sequences, FiniteSets, TLC

\* ------------------------------------------------------------------ bounds

\* Largest bounded capacity a provider is constructed with.
MaxCap == 2

\* How far the nested calls of SetDescriptor are followed.
MaxNesting == 3

\* UnlimitedSize = math.MaxInt, scaled to the checker's integer range.
MaxInt == 2147483647

\* --------------------------------------------------------------- error values

nil == "nil"
ErrBlobUnknown == "UnknownBlob"
ErrDigestInvalid == "InvalidDigest"
ErrInvalidDescriptor == "InvalidDescriptor"
ErrInvalidRepositoryName == "InvalidRepositoryName"

\* -------------------------------------------------------------------- digests

\* A digest is {algorithm, hex} (spec.md, DATA MODEL).  The zero value of the
\* type, the empty string, has neither.
MkDigest(alg, hex) == [algorithm |-> alg, hex |-> hex]

EmptyDigest == MkDigest("", <<>>)
DgA == MkDigest("sha256", <<"a", "a">>)
DgB == MkDigest("sha256", <<"b", "b">>)
DgC == MkDigest("sha512", <<"c", "c", "c", "c">>)
\* wrong length and wrong charset for its algorithm
DgBad == MkDigest("sha512", <<"z", "z">>)

HexChars == {"a", "b", "c"}

\* Encoded length each supported algorithm asks for (scaled down).
EncodedLen(alg) == CASE alg = "sha256" -> 2 [] alg = "sha512" -> 4 [] OTHER -> 0

SupportedAlgorithms == {"sha256", "sha512"}

\* dgst.Algorithm()
Algorithm(d) == d.algorithm

\* dgst.Validate(): non-empty, supported algorithm, correct length and charset.
Validate(d) ==
    IF d.algorithm = "" \/ d.hex = <<>> THEN ErrDigestInvalid
    ELSE IF d.algorithm \notin SupportedAlgorithms THEN ErrDigestInvalid
    ELSE IF Len(d.hex) # EncodedLen(d.algorithm) THEN ErrDigestInvalid
    ELSE IF \E i \in 1..Len(d.hex) : d.hex[i] \notin HexChars THEN ErrDigestInvalid
    ELSE nil

Digests == {DgA, DgB, DgC, DgBad, EmptyDigest}
ValidDigests == {d \in Digests : Validate(d) = nil}

\* ---------------------------------------------------------------- descriptors

MkDescriptor(d, sz, mt) == [digest |-> d, size |-> sz, mediaType |-> mt]

\* distribution.Descriptor{}
ZeroDescriptor == MkDescriptor(EmptyDigest, 0, "")

\* cache.ValidateDescriptor: digest present and valid, size >= 0, media type
\* non-empty.
ValidateDescriptor(desc) ==
    IF Validate(desc.digest) # nil THEN Validate(desc.digest)
    ELSE IF desc.size < 0 THEN ErrInvalidDescriptor
    ELSE IF desc.mediaType = "" THEN ErrInvalidDescriptor
    ELSE nil

Descriptors ==
    { MkDescriptor(DgA, 1, "m"), MkDescriptor(DgA, 2, "m"),
      MkDescriptor(DgB, 1, "m"), MkDescriptor(DgC, 1, "m"),
      MkDescriptor(DgA, 1, ""), MkDescriptor(DgA, -1, "m"),
      MkDescriptor(EmptyDigest, 1, "m"), MkDescriptor(DgBad, 1, "m") }

ValidDescriptors == {x \in Descriptors : ValidateDescriptor(x) = nil}

\* ------------------------------------------------------------ repository names

\* A repository name is the sequence of its path components; the empty
\* sequence is the empty string.
DefaultDomain == "docker.io"
OfficialRepoName == "library"
Domains == {DefaultDomain}
NameComponents == {"foo", "bar", OfficialRepoName}

RepoNames ==
    { <<>>, <<"Foo">>, <<"foo">>, <<"bar">>,
      <<DefaultDomain, OfficialRepoName, "foo">> }

\* The normalized form of a name: the default domain, and the official
\* repository prefix for a single component, are made explicit.
Normalize(name) ==
    IF name # <<>> /\ name[1] \in Domains THEN name
    ELSE IF Len(name) = 1 THEN <<DefaultDomain, OfficialRepoName>> \o name
    ELSE <<DefaultDomain>> \o name

\* reference.ParseNormalizedNamed: (normalized name, error); a name that cannot
\* be normalized (the empty one, one with an upper-case component) is refused.
ParseNormalizedNamed(name) ==
    IF name = <<>> THEN [named |-> <<>>, err |-> ErrInvalidRepositoryName]
    ELSE IF \E i \in 1..Len(name) : name[i] \notin Domains \cup NameComponents
         THEN [named |-> <<>>, err |-> ErrInvalidRepositoryName]
    ELSE [named |-> Normalize(name), err |-> nil]

\* ----------------------------------------------------------------- cache keys

\* descriptorCacheKey{digest, repo}; the key of the global scope leaves repo at
\* its zero value, the empty string.
GlobalRepo == <<>>

descriptorCacheKey(d, repo) == [digest |-> d, repo |-> repo]

\* ------------------------------------------------------------ the shared store

VARIABLES
    configured, \* the size the provider was constructed with
    lru,        \* the provider's store: [size, items], items a function key -> descriptor
    last,       \* the call that has just returned, Idle between calls
    inserted,   \* the digests inserted through the provider since construction
    calls,      \* concurrent callers: the SetDescriptor call each one is in
    landed      \* concurrent callers: the stores that reached the store, in order

\* The registry process around Registry.ListenAndServe (registry.go).
VARIABLES
    drainTimeout, \* config.HTTP.DrainTimeout
    quit,         \* the quit channel: the signals it buffers
    main,         \* the goroutine that runs ListenAndServe
    serving,      \* the goroutine that runs Serve and sends on serveErr
    server        \* registry.server, as far as Serve and Shutdown show it

cacheVars == <<configured, lru, last, inserted, calls, landed>>

registryVars == <<drainTimeout, quit, main, serving, server>>

vars == <<cacheVars, registryVars>>

\* ------------------------------------------------------- the registry process

\* Registry.ListenAndServe, from the point where the listener is ready.  The
\* HTTP server (net/http) is the environment: Serve returns when accepting
\* fails or once Shutdown has been called; Shutdown returns when the open
\* connections are gone or its context's deadline has passed.

\* var quit = make(chan os.Signal, 1)
QuitCap == 1

\* Most connections open at a time.
MaxConns == 2

\* Values of config.HTTP.DrainTimeout; zero turns draining off.
DrainTimeouts == {0, 1, 2}

SIGTERM == "SIGTERM"
Interrupt == "interrupt"

ErrServerClosed == "http: Server closed"
ErrAccept == "accept error"
DeadlineExceeded == "context deadline exceeded"
NoError == "none"

\* The goroutine in ListenAndServe: where it is, whether signal.Notify has
\* been called, what it returned and through which branch.
MainAt(pc, notified, ret, via) ==
    [pc |-> pc, notified |-> notified, ret |-> ret, via |-> via]

\* The goroutine of `go func() { serveErr <- registry.server.Serve(ln) }()`.
ServingAt(pc, err) == [pc |-> pc, err |-> err]

\* registry.server: whether Serve is accepting, the open connections, the
\* calls of Shutdown and the deadline of the context given to the last one.
ServerAt(state, conns, shutdowns, deadline) ==
    [state |-> state, conns |-> conns, shutdowns |-> shutdowns, deadline |-> deadline]

NotStarted == MainAt("start", FALSE, NoError, "none")
NotServing == ServingAt("none", NoError)
NewServer == ServerAt("new", 0, 0, 0)

\* The cache is looked at without a registry process around it.
NoRegistry ==
    /\ drainTimeout = 0
    /\ quit = <<>>
    /\ main = NotStarted
    /\ serving = NotServing
    /\ server = NewServer

\* Serve(ln) is entered: it accepts, unless Shutdown was called before.
Accepting(srv) ==
    IF srv.state = "closed" THEN srv ELSE [srv EXCEPT !.state = "accepting"]

\* if config.HTTP.DrainTimeout == 0 { return registry.server.Serve(ln) }
\* else: signal.Notify, make(chan error), go func().
MainStart ==
    /\ main.pc = "start"
    /\ IF drainTimeout = 0
       THEN /\ main' = MainAt("serve", FALSE, NoError, "none")
            /\ server' = Accepting(server)
            /\ UNCHANGED serving
       ELSE /\ main' = MainAt("select", TRUE, NoError, "none")
            /\ serving' = ServingAt("spawned", NoError)
            /\ UNCHANGED server
    /\ UNCHANGED <<drainTimeout, quit, cacheVars>>

\* The spawned goroutine calls registry.server.Serve(ln).
ServeEnter ==
    /\ serving.pc = "spawned"
    /\ serving' = ServingAt("serve", NoError)
    /\ server' = Accepting(server)
    /\ UNCHANGED <<drainTimeout, quit, main, cacheVars>>

\* What Serve can return now: an accept error at any time, ErrServerClosed
\* once Shutdown has been called.
ServeResults(srv) ==
    {ErrAccept} \cup (IF srv.state = "closed" THEN {ErrServerClosed} ELSE {})

\* Serve has returned: the server accepts no more.
Stopped(srv) ==
    IF srv.state = "closed" THEN srv ELSE [srv EXCEPT !.state = "stopped"]

\* Without draining: Serve returns and ListenAndServe returns its error.
MainServeReturns ==
    /\ main.pc = "serve"
    /\ \E err \in ServeResults(server) :
            main' = MainAt("returned", main.notified, err, "serve")
    /\ server' = Stopped(server)
    /\ UNCHANGED <<drainTimeout, quit, serving, cacheVars>>

\* In the goroutine: Serve returns; its error is to be sent on serveErr.
ServeReturns ==
    /\ serving.pc = "serve"
    /\ \E err \in ServeResults(server) :
            serving' = ServingAt("send", err)
    /\ server' = Stopped(server)
    /\ UNCHANGED <<drainTimeout, quit, main, cacheVars>>

\* case err := <-serveErr: return err
MainSelectServe ==
    /\ main.pc = "select"
    /\ serving.pc = "send"
    /\ main' = MainAt("returned", main.notified, serving.err, "serve")
    /\ serving' = ServingAt("done", serving.err)
    /\ UNCHANGED <<drainTimeout, quit, server, cacheVars>>

\* case <-quit: a buffered signal is taken; Shutdown is called next.
MainSelectQuit ==
    /\ main.pc = "select"
    /\ quit # <<>>
    /\ quit' = Tail(quit)
    /\ main' = MainAt("shutdown", main.notified, NoError, "quit")
    /\ UNCHANGED <<drainTimeout, serving, server, cacheVars>>

\* Changed quit branch: Shutdown is called with no deadline.
MainShutdownNoDeadline ==
    /\ main.pc = "shutdown"
    /\ server' = ServerAt("closed", server.conns, server.shutdowns + 1, 0)
    /\ main' = MainAt("draining", main.notified, NoError, "quit")
    /\ UNCHANGED <<drainTimeout, quit, serving, cacheVars>>

\* c, cancel := context.WithTimeout(context.Background(), DrainTimeout);
\* registry.server.Shutdown(c) is called: the server stops accepting.
MainShutdown ==
    /\ main.pc = "shutdown"
    /\ server' = ServerAt("closed", server.conns, server.shutdowns + 1, drainTimeout)
    /\ main' = MainAt("draining", main.notified, NoError, "quit")
    /\ UNCHANGED <<drainTimeout, quit, serving, cacheVars>>

\* What Shutdown can return now: nil with no connection open, the context's
\* error while connections are open and the deadline has passed.
ShutdownResults(srv) ==
    IF srv.conns = 0 THEN {nil} ELSE {DeadlineExceeded}

\* return registry.server.Shutdown(c)
MainShutdownReturns ==
    /\ main.pc = "draining"
    /\ \E err \in ShutdownResults(server) :
            main' = MainAt("returned", main.notified, err, "quit")
    /\ UNCHANGED <<drainTimeout, quit, serving, server, cacheVars>>

\* A client connects while the server accepts.
ConnOpen ==
    /\ server.state = "accepting"
    /\ server.conns < MaxConns
    /\ server' = [server EXCEPT !.conns = @ + 1]
    /\ UNCHANGED <<drainTimeout, quit, main, serving, cacheVars>>

\* A connection finishes.
ConnClose ==
    /\ server.conns > 0
    /\ server' = [server EXCEPT !.conns = @ - 1]
    /\ UNCHANGED <<drainTimeout, quit, main, serving, cacheVars>>

\* The process receives SIGTERM after signal.Notify(quit, syscall.SIGTERM):
\* the signal is put on quit if there is room and dropped otherwise.
SignalDelivered ==
    /\ main.notified
    /\ Len(quit) < QuitCap
    /\ quit' = Append(quit, SIGTERM)
    /\ UNCHANGED <<drainTimeout, main, serving, server, cacheVars>>

\* quit is a variable of the package: code of the package (its tests) sends
\* on it directly, at any time the buffer has room.
QuitSent ==
    /\ Len(quit) < QuitCap
    /\ quit' = Append(quit, Interrupt)
    /\ UNCHANGED <<drainTimeout, main, serving, server, cacheVars>>

RegistryNext ==
    \/ MainStart
    \/ ServeEnter
    \/ MainServeReturns
    \/ ServeReturns
    \/ MainSelectServe
    \/ MainSelectQuit
    \/ MainShutdown
    \/ MainShutdownReturns
    \/ ConnOpen
    \/ ConnClose
    \/ SignalDelivered
    \/ QuitSent

\* ------------------------------------------------------------ store operations

NoItems == [k \in {} |-> ZeroDescriptor]

\* lru.NewARC(size)
NewARC(size) == [size |-> size, items |-> NoItems]

\* lru.Get(key): (value, found)
LruGet(l, key) ==
    IF key \in DOMAIN l.items
    THEN [value |-> l.items[key], ok |-> TRUE]
    ELSE [value |-> ZeroDescriptor, ok |-> FALSE]

Without(items, key) == [k \in DOMAIN items \ {key} |-> items[k]]

With(items, key, value) ==
    [k \in DOMAIN items \cup {key} |-> IF k = key THEN value ELSE items[k]]

\* lru.Remove(key): deletes if present, no-op if absent.
LruRemove(l, key) == [l EXCEPT !.items = Without(l.items, key)]

\* lru.Add(key, value): inserts or replaces; at capacity, one entry chosen by
\* the adaptive policy is evicted.  The policy's choice is left open: the
\* result is the set of stores any choice of victim yields.
LruAdd(l, key, value) ==
    IF key \in DOMAIN l.items \/ Cardinality(DOMAIN l.items) < l.size
    THEN { [l EXCEPT !.items = With(l.items, key, value)] }
    ELSE { [l EXCEPT !.items = With(Without(l.items, victim), key, value)] :
             victim \in DOMAIN l.items }

\* ----------------------------------------------------------------- the provider

\* Changed constructor: the store is made one entry larger than asked.
NewProviderOneTooMany(size) ==
    NewARC(IF size <= 0 THEN MaxInt ELSE size + 1)

\* Changed constructor: a size of zero or less gives a store of one entry.
NewProviderNeverUnbounded(size) ==
    NewARC(IF size <= 0 THEN 1 ELSE size)

NewInMemoryBlobDescriptorCacheProvider(size) ==
    NewARC(IF size <= 0 THEN MaxInt ELSE size)

\* Changed Stat: a hit returns the zero descriptor instead of the cached one.
ScopeStatDropsValue(l, repo, dgst) ==
    IF Validate(dgst) # nil
    THEN [desc |-> ZeroDescriptor, err |-> Validate(dgst)]
    ELSE IF LruGet(l, descriptorCacheKey(dgst, repo)).ok
         THEN [desc |-> ZeroDescriptor, err |-> nil]
         ELSE [desc |-> ZeroDescriptor, err |-> ErrBlobUnknown]

\* Stat on a scope: validate, look the key up, miss is ErrBlobUnknown.
ScopeStat(l, repo, dgst) ==
    IF Validate(dgst) # nil
    THEN [desc |-> ZeroDescriptor, err |-> Validate(dgst)]
    ELSE LET got == LruGet(l, descriptorCacheKey(dgst, repo)) IN
         IF got.ok
         THEN [desc |-> got.value, err |-> nil]
         ELSE [desc |-> ZeroDescriptor, err |-> ErrBlobUnknown]

GlobalStat(l, dgst) == ScopeStat(l, GlobalRepo, dgst)

\* Changed Clear: a digest that is not cached is reported as unknown.
GlobalClearMissFails(l, dgst) ==
    IF descriptorCacheKey(dgst, GlobalRepo) \in DOMAIN l.items
    THEN [err |-> nil, lru |-> LruRemove(l, descriptorCacheKey(dgst, GlobalRepo))]
    ELSE [err |-> ErrBlobUnknown, lru |-> l]

\* Clear on the provider: removes the global key, always returns nil.
GlobalClear(l, dgst) ==
    [err |-> nil, lru |-> LruRemove(l, descriptorCacheKey(dgst, GlobalRepo))]

Outcome(e, l) == [err |-> e, lru |-> l]

\* The test that sends SetDescriptor to the canonical mapping first.
DigestsDiffer(dgst, desc) ==
    Algorithm(dgst) # Algorithm(desc.digest) /\ dgst # desc.digest

\* Changed nested call: made with the digest of the call itself.
NestedDigestSame(dgst, desc) == dgst

\* The digest argument of the nested call SetDescriptor(desc.Digest, desc).
NestedDigest(dgst, desc) == desc.digest

RECURSIVE SetDescriptorNesting(_, _, _, _)

\* How many times SetDescriptor(dgst, desc) re-enters SetDescriptor, one inside
\* the other, followed for at most fuel calls.
SetDescriptorNesting(l, dgst, desc, fuel) ==
    IF fuel = 0 THEN 0
    ELSE IF GlobalStat(l, dgst).err = ErrBlobUnknown /\ DigestsDiffer(dgst, desc)
         THEN 1 + SetDescriptorNesting(l, NestedDigest(dgst, desc), desc, fuel - 1)
    ELSE 0

RECURSIVE GlobalSetDescriptor(_, _, _)

\* Changed SetDescriptor: the miss check is gone, every valid write is stored.
GlobalSetDescriptorLastWriter(l, dgst, desc) ==
    IF Validate(dgst) # nil THEN { Outcome(Validate(dgst), l) }
    ELSE LET canonical ==
                 IF DigestsDiffer(dgst, desc)
                 THEN GlobalSetDescriptor(l, desc.digest, desc)
                 ELSE { Outcome(nil, l) }
         IN UNION { IF o.err # nil THEN { o }
                    ELSE IF ValidateDescriptor(desc) # nil
                         THEN { Outcome(ValidateDescriptor(desc), o.lru) }
                    ELSE { Outcome(nil, l2) :
                             l2 \in LruAdd(o.lru, descriptorCacheKey(dgst, GlobalRepo), desc) }
                  : o \in canonical }

\* Changed SetDescriptor: the descriptor is stored without being validated.
GlobalSetDescriptorUnchecked(l, dgst, desc) ==
    LET err == GlobalStat(l, dgst).err IN
    IF err = ErrBlobUnknown
    THEN { Outcome(nil, l2) :
             l2 \in LruAdd(l, descriptorCacheKey(dgst, GlobalRepo), desc) }
    ELSE { Outcome(err, l) }

\* SetDescriptor on the provider.  The set of outcomes, one per choice of the
\* store's eviction victims.
GlobalSetDescriptor(l, dgst, desc) ==
    LET err == GlobalStat(l, dgst).err IN
    IF err = ErrBlobUnknown
    THEN LET canonical ==
                 IF DigestsDiffer(dgst, desc)
                 THEN GlobalSetDescriptor(l, desc.digest, desc)
                 ELSE { Outcome(nil, l) }
         IN UNION { IF o.err # nil THEN { o }
                    ELSE IF Validate(dgst) # nil
                         THEN { Outcome(Validate(dgst), o.lru) }
                    ELSE IF ValidateDescriptor(desc) # nil
                         THEN { Outcome(ValidateDescriptor(desc), o.lru) }
                    ELSE { Outcome(nil, l2) :
                             l2 \in LruAdd(o.lru, descriptorCacheKey(dgst, GlobalRepo), desc) }
                  : o \in canonical }
    ELSE { Outcome(err, l) }

\* ---------------------------------------------------------- the scoped views

\* Changed RepositoryScoped: the empty name is given a view.
RepositoryScopedAcceptsEmpty(repo) ==
    [err |-> IF repo = <<>> THEN nil ELSE ParseNormalizedNamed(repo).err,
     repo |-> repo]

\* RepositoryScoped(repo): the view keeps the name as given.
RepositoryScoped(repo) ==
    [err |-> ParseNormalizedNamed(repo).err, repo |-> repo]

\* Changed scoped Stat: a miss on the view is answered from the global scope.
ScopedStatFallsBack(l, repo, dgst) ==
    IF ScopeStat(l, repo, dgst).err = ErrBlobUnknown
    THEN ScopeStat(l, GlobalRepo, dgst)
    ELSE ScopeStat(l, repo, dgst)

ScopedStat(l, repo, dgst) == ScopeStat(l, repo, dgst)

\* Changed scoped Clear: the global entry is removed with the scoped one.
ScopedClearBoth(l, repo, dgst) ==
    [err |-> nil,
     lru |-> LruRemove(LruRemove(l, descriptorCacheKey(dgst, repo)),
                       descriptorCacheKey(dgst, GlobalRepo))]

\* Clear on a view: removes the scoped key, always returns nil.
ScopedClear(l, repo, dgst) ==
    [err |-> nil, lru |-> LruRemove(l, descriptorCacheKey(dgst, repo))]

\* Changed scoped SetDescriptor: the entry is written under a second view's
\* name as well.
ScopedSetDescriptorLeaking(l, repo, dgst, desc) ==
    IF Validate(dgst) # nil THEN { Outcome(Validate(dgst), l) }
    ELSE IF ValidateDescriptor(desc) # nil
         THEN { Outcome(ValidateDescriptor(desc), l) }
    ELSE UNION { GlobalSetDescriptor(l2, dgst, desc) :
                   l2 \in UNION { LruAdd(l1, descriptorCacheKey(dgst, <<"bar">>), desc) :
                                    l1 \in LruAdd(l, descriptorCacheKey(dgst, repo), desc) } }

\* Changed scoped SetDescriptor: the scoped key is written before the
\* descriptor is validated.
ScopedSetDescriptorWritesFirst(l, repo, dgst, desc) ==
    IF Validate(dgst) # nil THEN { Outcome(Validate(dgst), l) }
    ELSE UNION { IF ValidateDescriptor(desc) # nil
                 THEN { Outcome(ValidateDescriptor(desc), l1) }
                 ELSE GlobalSetDescriptor(l1, dgst, desc) :
                   l1 \in LruAdd(l, descriptorCacheKey(dgst, repo), desc) }

\* Changed scoped SetDescriptor: a digest the view has cached is not written
\* again.
ScopedSetDescriptorFirstWriter(l, repo, dgst, desc) ==
    IF Validate(dgst) # nil THEN { Outcome(Validate(dgst), l) }
    ELSE IF ValidateDescriptor(desc) # nil
         THEN { Outcome(ValidateDescriptor(desc), l) }
    ELSE IF descriptorCacheKey(dgst, repo) \in DOMAIN l.items
         THEN GlobalSetDescriptor(l, dgst, desc)
    ELSE UNION { GlobalSetDescriptor(l1, dgst, desc) :
                   l1 \in LruAdd(l, descriptorCacheKey(dgst, repo), desc) }

\* Changed scoped SetDescriptor: the write is not forwarded to the provider.
ScopedSetDescriptorNoForward(l, repo, dgst, desc) ==
    IF Validate(dgst) # nil THEN { Outcome(Validate(dgst), l) }
    ELSE IF ValidateDescriptor(desc) # nil
         THEN { Outcome(ValidateDescriptor(desc), l) }
    ELSE { Outcome(nil, l1) : l1 \in LruAdd(l, descriptorCacheKey(dgst, repo), desc) }

\* SetDescriptor on a view: validate, write the scoped key, forward to the
\* provider.
ScopedSetDescriptor(l, repo, dgst, desc) ==
    IF Validate(dgst) # nil THEN { Outcome(Validate(dgst), l) }
    ELSE IF ValidateDescriptor(desc) # nil
         THEN { Outcome(ValidateDescriptor(desc), l) }
    ELSE UNION { GlobalSetDescriptor(l1, dgst, desc) :
                   l1 \in LruAdd(l, descriptorCacheKey(dgst, repo), desc) }

\* ------------------------------------------------------------------- calls

\* A finished call: the operation, the scope it was made on, its arguments
\* (for Stat, desc is the descriptor returned), the error returned, and two
\* observations of the store: whether the addressed key was cached when the
\* call started, and the keys the call made unreachable.
Call(op, repo, dgst, desc, err, known, gone) ==
    [op |-> op, repo |-> repo, dgst |-> dgst, desc |-> desc, err |-> err,
     known |-> known, gone |-> gone]

Known(l, repo, dgst) == descriptorCacheKey(dgst, repo) \in DOMAIN l.items

Gone(l, l2) == DOMAIN l.items \ DOMAIN l2.items

\* The names a view can be obtained for.
Views == {r \in RepoNames : RepositoryScoped(r).err = nil}

\* The digests inserted through the provider, each under its own digest, for
\* as long as nothing else has changed the store since construction.
OnlyInserts(ds) == [fresh |-> TRUE, digests |-> ds]
NotOnlyInserts == [fresh |-> FALSE, digests |-> {}]

Inserted(h, c, l, l2) ==
    IF /\ c.op = "SetDescriptor" /\ c.repo = GlobalRepo /\ c.err = nil
       /\ Validate(c.dgst) = nil /\ ValidateDescriptor(c.desc) = nil
       /\ c.desc.digest = c.dgst
    THEN IF h.fresh THEN OnlyInserts(h.digests \cup {c.dgst}) ELSE h
    ELSE IF l2 = l THEN h ELSE NotOnlyInserts

NoCalls == [t \in {} |-> 0]

Idle == Call("idle", GlobalRepo, EmptyDigest, ZeroDescriptor, nil, FALSE, {})

Init ==
    /\ configured \in 1..MaxCap
    /\ lru = NewInMemoryBlobDescriptorCacheProvider(configured)
    /\ last = Idle
    /\ inserted = OnlyInserts({})
    /\ calls = NoCalls
    /\ landed = <<>>
    /\ NoRegistry

DoRepositoryScoped ==
    /\ last = Idle
    /\ \E name \in RepoNames :
            last' = Call("RepositoryScoped", name, EmptyDigest, ZeroDescriptor,
                         RepositoryScoped(name).err, FALSE, {})
    /\ UNCHANGED <<lru, configured, inserted, calls, landed, registryVars>>

DoGlobalStat ==
    /\ last = Idle
    /\ \E d \in Digests :
            last' = Call("Stat", GlobalRepo, d, GlobalStat(lru, d).desc,
                         GlobalStat(lru, d).err, Known(lru, GlobalRepo, d), {})
    /\ UNCHANGED <<lru, configured, inserted, calls, landed, registryVars>>

DoGlobalClear ==
    /\ last = Idle
    /\ \E d \in Digests :
            LET o == GlobalClear(lru, d) IN
            /\ lru' = o.lru
            /\ last' = Call("Clear", GlobalRepo, d, ZeroDescriptor, o.err,
                            Known(lru, GlobalRepo, d), Gone(lru, o.lru))
            /\ inserted' = Inserted(inserted, last', lru, o.lru)
    /\ UNCHANGED <<configured, calls, landed, registryVars>>

DoGlobalSetDescriptor ==
    /\ last = Idle
    /\ \E d \in Digests, desc \in Descriptors :
            \E o \in GlobalSetDescriptor(lru, d, desc) :
                /\ lru' = o.lru
                /\ last' = Call("SetDescriptor", GlobalRepo, d, desc, o.err,
                                Known(lru, GlobalRepo, d), Gone(lru, o.lru))
            /\ inserted' = Inserted(inserted, last', lru, o.lru)
    /\ UNCHANGED <<configured, calls, landed, registryVars>>

DoScopedStat ==
    /\ last = Idle
    /\ \E r \in Views, d \in Digests :
            last' = Call("Stat", r, d, ScopedStat(lru, r, d).desc,
                         ScopedStat(lru, r, d).err, Known(lru, r, d), {})
    /\ UNCHANGED <<lru, configured, inserted, calls, landed, registryVars>>

DoScopedClear ==
    /\ last = Idle
    /\ \E r \in Views, d \in Digests :
            LET o == ScopedClear(lru, r, d) IN
            /\ lru' = o.lru
            /\ last' = Call("Clear", r, d, ZeroDescriptor, o.err,
                            Known(lru, r, d), Gone(lru, o.lru))
            /\ inserted' = Inserted(inserted, last', lru, o.lru)
    /\ UNCHANGED <<configured, calls, landed, registryVars>>

DoScopedSetDescriptor ==
    /\ last = Idle
    /\ \E r \in Views, d \in Digests, desc \in Descriptors :
            \E o \in ScopedSetDescriptor(lru, r, d, desc) :
                /\ lru' = o.lru
                /\ last' = Call("SetDescriptor", r, d, desc, o.err,
                                Known(lru, r, d), Gone(lru, o.lru))
            /\ inserted' = Inserted(inserted, last', lru, o.lru)
    /\ UNCHANGED <<configured, calls, landed, registryVars>>

\* The caller takes the result of its call; the provider waits for the next one.
Return ==
    /\ last # Idle
    /\ last' = Idle
    /\ UNCHANGED <<lru, configured, inserted, calls, landed, registryVars>>

Next ==
    \/ DoRepositoryScoped
    \/ DoGlobalStat
    \/ DoGlobalClear
    \/ DoGlobalSetDescriptor
    \/ DoScopedStat
    \/ DoScopedClear
    \/ DoScopedSetDescriptor
    \/ Return

Spec == Init /\ [][Next]_vars

\* ------------------------------------------------------ concurrent callers

\* Callers that run SetDescriptor on the provider at the same time.  Each
\* access to the store is one step; what a caller computes between two
\* accesses is its own and belongs to the step of the next access.
Callers == {"c1", "c2"}

ConcDigests == {DgA, DgC}

ConcDescriptors ==
    { MkDescriptor(DgA, 1, "m"), MkDescriptor(DgA, 2, "m"),
      MkDescriptor(DgC, 1, "m"), MkDescriptor(DgA, -1, "m"),
      MkDescriptor(DgB, 1, "m") }

Frame(pc, dgst, desc, err) == [pc |-> pc, dgst |-> dgst, desc |-> desc, err |-> err]

NotCalling == Frame("idle", EmptyDigest, ZeroDescriptor, nil)

Landing(t, dgst, desc) == [by |-> t, dgst |-> dgst, desc |-> desc]

ConcInit ==
    /\ configured \in 1..MaxCap
    /\ lru = NewInMemoryBlobDescriptorCacheProvider(configured)
    /\ last = Idle
    /\ inserted = OnlyInserts({})
    /\ calls = [t \in Callers |-> NotCalling]
    /\ landed = <<>>
    /\ NoRegistry

\* A caller enters SetDescriptor(dgst, desc).
CallSetDescriptor(t) ==
    /\ calls[t].pc = "idle"
    /\ \E d \in ConcDigests, desc \in ConcDescriptors :
            calls' = [calls EXCEPT ![t] = Frame("stat", d, desc, nil)]
    /\ UNCHANGED <<configured, lru, last, inserted, landed, registryVars>>

\* Changed miss check: an entry that is found does not end the call.
StepStatIgnoresHit(t) ==
    /\ calls[t].pc = "stat"
    /\ LET f == calls[t]
           err == GlobalStat(lru, f.dgst).err
       IN calls' = [calls EXCEPT ![t] =
                      IF err \notin {ErrBlobUnknown, nil} THEN Frame("done", f.dgst, f.desc, err)
                      ELSE IF DigestsDiffer(f.dgst, f.desc)
                           THEN Frame("canonStat", f.dgst, f.desc, nil)
                      ELSE Frame("store", f.dgst, f.desc, nil)]
    /\ UNCHANGED <<configured, lru, last, inserted, landed, registryVars>>

\* The miss check: Stat(dgst).  Anything but ErrBlobUnknown ends the call.
StepStat(t) ==
    /\ calls[t].pc = "stat"
    /\ LET f == calls[t]
           err == GlobalStat(lru, f.dgst).err
       IN calls' = [calls EXCEPT ![t] =
                      IF err # ErrBlobUnknown THEN Frame("done", f.dgst, f.desc, err)
                      ELSE IF DigestsDiffer(f.dgst, f.desc)
                           THEN Frame("canonStat", f.dgst, f.desc, nil)
                      ELSE Frame("store", f.dgst, f.desc, nil)]
    /\ UNCHANGED <<configured, lru, last, inserted, landed, registryVars>>

\* The nested SetDescriptor(desc.Digest, desc): its miss check and, on a
\* miss, its validation.
StepCanonStat(t) ==
    /\ calls[t].pc = "canonStat"
    /\ LET f == calls[t]
           err == GlobalStat(lru, f.desc.digest).err
       IN calls' = [calls EXCEPT ![t] =
                      IF err = nil THEN Frame("store", f.dgst, f.desc, nil)
                      ELSE IF err # ErrBlobUnknown THEN Frame("done", f.dgst, f.desc, err)
                      ELSE IF Validate(f.desc.digest) # nil
                           THEN Frame("done", f.dgst, f.desc, Validate(f.desc.digest))
                      ELSE IF ValidateDescriptor(f.desc) # nil
                           THEN Frame("done", f.dgst, f.desc, ValidateDescriptor(f.desc))
                      ELSE Frame("canonStore", f.dgst, f.desc, nil)]
    /\ UNCHANGED <<configured, lru, last, inserted, landed, registryVars>>

\* The nested call's store of the canonical key.
StepCanonStore(t) ==
    /\ calls[t].pc = "canonStore"
    /\ LET f == calls[t] IN
       /\ lru' \in LruAdd(lru, descriptorCacheKey(f.desc.digest, GlobalRepo), f.desc)
       /\ landed' = Append(landed, Landing(t, f.desc.digest, f.desc))
       /\ calls' = [calls EXCEPT ![t] = Frame("store", f.dgst, f.desc, nil)]
    /\ UNCHANGED <<configured, last, inserted, registryVars>>

\* Validation of dgst and desc, then the store of the key of dgst.
StepStore(t) ==
    /\ calls[t].pc = "store"
    /\ LET f == calls[t] IN
       IF Validate(f.dgst) # nil \/ ValidateDescriptor(f.desc) # nil
       THEN /\ calls' = [calls EXCEPT ![t] =
                            Frame("done", f.dgst, f.desc,
                                  IF Validate(f.dgst) # nil THEN Validate(f.dgst)
                                  ELSE ValidateDescriptor(f.desc))]
            /\ UNCHANGED <<lru, landed>>
       ELSE /\ lru' \in LruAdd(lru, descriptorCacheKey(f.dgst, GlobalRepo), f.desc)
            /\ landed' = Append(landed, Landing(t, f.dgst, f.desc))
            /\ calls' = [calls EXCEPT ![t] = Frame("done", f.dgst, f.desc, nil)]
    /\ UNCHANGED <<configured, last, inserted, registryVars>>

ConcNext ==
    \E t \in Callers :
        \/ CallSetDescriptor(t)
        \/ StepStat(t)
        \/ StepCanonStat(t)
        \/ StepCanonStore(t)
        \/ StepStore(t)

ConcSpec == ConcInit /\ [][ConcNext]_vars

\* ------------------------------------------------------- the unbounded provider

\* A provider constructed with a size of zero or less.  Nothing is ever
\* evicted from it, so the calls are made over fewer digests, descriptors and
\* views to keep its stores few.
UnboundedSizes == {-1, 0}

UnboundedDigests == {DgA, DgC}

UnboundedDescriptors == { MkDescriptor(DgA, 1, "m"), MkDescriptor(DgC, 1, "m") }

UnboundedViews == { <<"foo">>, <<"bar">> }

UnboundedInputs(c) ==
    \/ c.op \in {"idle", "RepositoryScoped"}
    \/ /\ c.dgst \in UnboundedDigests
       /\ c.repo \in {GlobalRepo} \cup UnboundedViews
       /\ c.op = "SetDescriptor" => c.desc \in UnboundedDescriptors

UnboundedInit ==
    /\ configured \in UnboundedSizes
    /\ lru = NewInMemoryBlobDescriptorCacheProvider(configured)
    /\ last = Idle
    /\ inserted = OnlyInserts({})
    /\ calls = NoCalls
    /\ landed = <<>>
    /\ NoRegistry

UnboundedNext == Next /\ UnboundedInputs(last')

UnboundedSpec == UnboundedInit /\ [][UnboundedNext]_vars

\* ------------------------------------------------------- the registry running

\* The registry process with a provider that no call is made on.
RegistryInit ==
    /\ drainTimeout \in DrainTimeouts
    /\ quit = <<>>
    /\ main = NotStarted
    /\ serving = NotServing
    /\ server = NewServer
    /\ configured = 1
    /\ lru = NewInMemoryBlobDescriptorCacheProvider(configured)
    /\ last = Idle
    /\ inserted = OnlyInserts({})
    /\ calls = NoCalls
    /\ landed = <<>>

RegistrySpec == RegistryInit /\ [][RegistryNext]_vars

\* The scheduler runs every goroutine that can take a step, Serve returns
\* once Shutdown has been called, and Shutdown returns.  Nothing is assumed
\* of signals, of clients, or of accept errors.
RegistryFairness ==
    /\ WF_vars(MainStart)
    /\ WF_vars(ServeEnter)
    /\ WF_vars(server.state = "closed" /\ ServeReturns)
    /\ WF_vars(MainSelectServe)
    /\ WF_vars(MainSelectQuit)
    /\ WF_vars(MainShutdown)
    /\ WF_vars(MainShutdownReturns)
    /\ WF_vars(ConnClose)

RegistryLiveSpec == RegistrySpec /\ RegistryFairness

\* ===================================================================== claims

GKey(d) == descriptorCacheKey(d, GlobalRepo)

Found(desc) == [desc |-> desc, err |-> nil]

IsValidSet(c) ==
    /\ c.op = "SetDescriptor"
    /\ Validate(c.dgst) = nil
    /\ ValidateDescriptor(c.desc) = nil

\* An Add of this key evicts nothing: the key is cached or there is room.
AddsInPlace(l, key) ==
    key \in DOMAIN l.items \/ Cardinality(DOMAIN l.items) < l.size

\* C1 -- Validation gate: on the provider and on every view, Stat, Clear and
\* SetDescriptor called with an invalid digest return the invalid-digest error
\* and leave the entries of the store as they were.
C1_ValidationGate ==
    [][ (last'.op \in {"Stat", "Clear", "SetDescriptor"} /\ Validate(last'.dgst) # nil)
          => (last'.err = ErrDigestInvalid /\ lru'.items = lru.items) ]_vars

\* C2 -- First-writer-wins in the global scope: a SetDescriptor for a digest
\* that has a global entry, made on the provider or forwarded from a view
\* whose own write evicts nothing, leaves that entry as it was; the call on
\* the provider returns no error and changes nothing at all.
C2_FirstWriterWins ==
    [][ ( /\ last'.op = "SetDescriptor"
          /\ GKey(last'.dgst) \in DOMAIN lru.items
          /\ \/ last'.repo = GlobalRepo
             \/ AddsInPlace(lru, descriptorCacheKey(last'.dgst, last'.repo)) )
          => /\ GKey(last'.dgst) \in DOMAIN lru'.items
             /\ lru'.items[GKey(last'.dgst)] = lru.items[GKey(last'.dgst)]
             /\ last'.repo = GlobalRepo => (last'.err = nil /\ lru' = lru) ]_vars

\* A second, different, valid descriptor was offered for a cached digest and
\* the first one is still the one Stat returns.
C2_Witness ==
    /\ IsValidSet(last)
    /\ last.repo = GlobalRepo
    /\ last.known
    /\ last.err = nil
    /\ GlobalStat(lru, last.dgst).err = nil
    /\ GlobalStat(lru, last.dgst).desc # last.desc

\* C3 -- Canonical aliasing: after SetDescriptor(dAlias, desc) on the provider
\* succeeds with a valid desc whose digest dCanonical differs from dAlias (same
\* algorithm or not), Stat(dAlias) and Stat(dCanonical) both return desc.
\* Stated for a call that finds neither digest cached and room for both.
C3_CanonicalAliasing ==
    [][ ( /\ IsValidSet(last')
          /\ last'.repo = GlobalRepo
          /\ last'.err = nil
          /\ last'.desc.digest # last'.dgst
          /\ GKey(last'.dgst) \notin DOMAIN lru.items
          /\ GKey(last'.desc.digest) \notin DOMAIN lru.items
          /\ Cardinality(DOMAIN lru.items) + 2 <= lru.size )
          => /\ GlobalStat(lru', last'.dgst) = Found(last'.desc)
             /\ GlobalStat(lru', last'.desc.digest) = Found(last'.desc) ]_vars

\* C4 (as amended) -- Repository isolation: an entry of a view's scope is
\* created or changed only by a SetDescriptor call made on that view for that
\* digest, so a view on which a valid d was never written answers Stat(d) with
\* UnknownBlob; and right after a successful SetDescriptor(d, _) on a view,
\* Stat(d) on the provider succeeds.
C4_Isolation ==
    [][ /\ \A key \in DOMAIN lru'.items :
              ( /\ key.repo # GlobalRepo
                /\ \/ key \notin DOMAIN lru.items
                   \/ lru.items[key] # lru'.items[key] )
              => ( /\ IsValidSet(last')
                   /\ last'.repo = key.repo
                   /\ last'.dgst = key.digest )
        /\ \A r \in Views, d \in ValidDigests :
              descriptorCacheKey(d, r) \notin DOMAIN lru'.items
              => ScopedStat(lru', r, d).err = ErrBlobUnknown
        /\ ( IsValidSet(last') /\ last'.repo # GlobalRepo /\ last'.err = nil )
              => GlobalStat(lru', last'.dgst).err = nil ]_vars

\* A digest written on one view only: that view and the provider know it,
\* another view does not.
C4_Witness ==
    /\ IsValidSet(last)
    /\ last.repo = <<"foo">>
    /\ last.err = nil
    /\ ScopedStat(lru, <<"foo">>, last.dgst).err = nil
    /\ ScopedStat(lru, <<"bar">>, last.dgst).err = ErrBlobUnknown
    /\ GlobalStat(lru, last.dgst).err = nil

\* C4 (as claimed) -- after any sequence of operations in which
\* SetDescriptor(d, _) was called on R1's view and never on R2's, Stat(d) on the
\* provider succeeds.  Taken for an R2 no call is ever made on; that
\* SetDescriptor(d, _) was called on R1 is read off R1's entry for d, which
\* only such a call creates.
C4_GlobalAlwaysSucceeds ==
    \A r \in Views, d \in Digests :
        descriptorCacheKey(d, r) \in DOMAIN lru.items
        => GlobalStat(lru, d).err = nil

\* The descriptors stored under the key of d, in the order they landed.
StoresOf(ld, d) == SelectSeq(ld, LAMBDA w : w.dgst = d)

\* Both callers have finished SetDescriptor calls for one digest, made with
\* two different valid descriptors.
BothFinished(cs) ==
    /\ \A t \in Callers : cs[t].pc = "done"
    /\ cs["c1"].dgst = cs["c2"].dgst
    /\ cs["c1"].desc # cs["c2"].desc
    /\ \A t \in Callers : Validate(cs[t].dgst) = nil /\ ValidateDescriptor(cs[t].desc) = nil

LastStoreWins(cs, l, ld) ==
    BothFinished(cs)
    => LET stores == StoresOf(ld, cs["c1"].dgst) IN
       /\ stores # <<>>
       /\ GlobalStat(l, cs["c1"].dgst) = Found(stores[Len(stores)].desc)

C6_RoundTrip ==
    ( IsValidSet(last) /\ last.repo = GlobalRepo /\ last.desc.digest = last.dgst )
    => GlobalStat(lru, last.dgst) = Found(last.desc)

\* C6 (as amended) -- the call returns no error; Stat(d) then returns exactly
\* desc when d had no global entry as the call started, and the entry d
\* already had otherwise.
C6_RoundTripOnMiss ==
    [][ ( IsValidSet(last') /\ last'.repo = GlobalRepo /\ last'.desc.digest = last'.dgst )
          => /\ last'.err = nil
             /\ GlobalStat(lru', last'.dgst) =
                    IF GKey(last'.dgst) \in DOMAIN lru.items
                    THEN GlobalStat(lru, last'.dgst)
                    ELSE Found(last'.desc) ]_vars

\* A digest that was not cached has been written and reads back.
C6_Witness ==
    /\ IsValidSet(last)
    /\ last.repo = GlobalRepo
    /\ last.desc.digest = last.dgst
    /\ ~last.known
    /\ GlobalStat(lru, last.dgst) = Found(last.desc)

\* C7 -- Scoped clear asymmetry: Clear(d) on the view of R removes the entry
\* of d in R's scope and nothing else: Stat(d) on the view then misses, Stat(d)
\* on the provider answers as before the Clear, and every other entry is as it
\* was.
C7_ScopedClearAsymmetry ==
    [][ ( last'.op = "Clear" /\ last'.repo # GlobalRepo /\ Validate(last'.dgst) = nil )
          => /\ last'.err = nil
             /\ ScopedStat(lru', last'.repo, last'.dgst).err = ErrBlobUnknown
             /\ GlobalStat(lru', last'.dgst) = GlobalStat(lru, last'.dgst)
             /\ lru'.items =
                    Without(lru.items, descriptorCacheKey(last'.dgst, last'.repo)) ]_vars

\* A view cleared a digest it had cached, and the provider still knows it.
C7_Witness ==
    /\ last.op = "Clear"
    /\ last.repo # GlobalRepo
    /\ last.known
    /\ last.gone = { descriptorCacheKey(last.dgst, last.repo) }
    /\ ScopedStat(lru, last.repo, last.dgst).err = ErrBlobUnknown
    /\ GlobalStat(lru, last.dgst).err = nil

IsInvalidDescriptorSet(c) ==
    /\ c.op = "SetDescriptor"
    /\ Validate(c.dgst) = nil
    /\ ValidateDescriptor(c.desc) # nil

\* C8 (as claimed) -- Invalid descriptor: SetDescriptor(d, desc), on the
\* provider or on a view, with a valid d and a desc that fails validation
\* returns an error and leaves the store with exactly the entries it had.
C8_InvalidDescriptorFails ==
    [][ IsInvalidDescriptorSet(last') => (last'.err # nil /\ lru' = lru) ]_vars

\* C8 (as amended) -- the store is left exactly as it was in every case; the
\* call returns an error except on the provider for a d that already has a
\* global entry, where it returns nil without looking at the descriptor.
C8_InvalidDescriptorWritesNothing ==
    [][ IsInvalidDescriptorSet(last')
          => /\ lru' = lru
             /\ last'.err = nil <=>
                    ( last'.repo = GlobalRepo /\ GKey(last'.dgst) \in DOMAIN lru.items ) ]_vars

\* An alias registration with a bad descriptor failed in the canonical step,
\* on a store that holds entries.
C8_Witness ==
    /\ IsInvalidDescriptorSet(last)
    /\ last.repo = GlobalRepo
    /\ DigestsDiffer(last.dgst, last.desc)
    /\ Validate(last.desc.digest) = nil
    /\ last.err = ErrInvalidDescriptor
    /\ DOMAIN lru.items # {}

Retrievable(ds) == {d \in ds : GlobalStat(lru, d).err = nil}

\* C9 -- Capacity bound, exact eviction: on a provider constructed with
\* capacity N >= 1, once N+1 distinct valid digests have been inserted through
\* the provider, each with a descriptor of that digest, exactly one of them is
\* not retrievable through Stat and the other N are.
C9_ExactEviction ==
    ( /\ configured >= 1
      /\ inserted.fresh
      /\ Cardinality(inserted.digests) = configured + 1 )
    => /\ Cardinality(inserted.digests \ Retrievable(inserted.digests)) = 1
       /\ Cardinality(Retrievable(inserted.digests)) = configured

\* Three digests have been inserted into a provider of capacity two.
C9_Witness ==
    /\ configured = 2
    /\ inserted.fresh
    /\ Cardinality(inserted.digests) = 3
    /\ Cardinality(last.gone) = 1

\* C10 -- Shared capacity: on a provider constructed with capacity N >= 1 the
\* entries of the global scope and of all repository scopes together are never
\* more than N.
C10_SharedCapacity ==
    configured >= 1 => Cardinality(DOMAIN lru.items) <= configured

\* A full store that holds entries of the global scope and of a repository
\* scope, after a call that evicted one.
C10_Witness ==
    /\ Cardinality(DOMAIN lru.items) = configured
    /\ \E k \in DOMAIN lru.items : k.repo = GlobalRepo
    /\ \E k \in DOMAIN lru.items : k.repo # GlobalRepo
    /\ last.op = "SetDescriptor"
    /\ last.gone # {}

\* C11 -- Unbounded mode: a provider constructed with a size of zero or less
\* never evicts: a call removes no key but the one an explicit Clear
\* addresses, the key a successful SetDescriptor wrote is cached on its scope
\* (and, for a view, on the provider), and Stat on its scope returns every
\* cached entry, however many keys the store holds.
C11_UnboundedNeverEvicts ==
    [][ configured <= 0 =>
          /\ Gone(lru, lru') \subseteq
                 ( IF last'.op = "Clear"
                   THEN { descriptorCacheKey(last'.dgst, last'.repo) } ELSE {} )
          /\ ( last'.op = "SetDescriptor" /\ last'.err = nil )
                => /\ ScopeStat(lru', last'.repo, last'.dgst).err = nil
                   /\ GlobalStat(lru', last'.dgst).err = nil
          /\ \A k \in DOMAIN lru'.items :
                 ScopeStat(lru', k.repo, k.digest) = Found(lru'.items[k]) ]_vars

\* An unbounded provider took a new key into a store that already holds more
\* entries than any bounded provider here can.
C11_Witness ==
    /\ configured <= 0
    /\ last.op = "SetDescriptor"
    /\ last.err = nil
    /\ ~last.known
    /\ Cardinality(DOMAIN lru.items) > MaxCap + 1
    /\ \A k \in DOMAIN lru.items : ScopeStat(lru, k.repo, k.digest).err = nil

\* C12 -- Miss signal without fallback: Stat(d) with a valid d, on the
\* provider or on a view, returns UnknownBlob (and the zero descriptor)
\* whenever the key of d in that very scope has no entry, whatever entries d
\* has in other scopes.
C12_MissWithoutFallback ==
    [][ ( /\ last'.op = "Stat"
          /\ Validate(last'.dgst) = nil
          /\ descriptorCacheKey(last'.dgst, last'.repo) \notin DOMAIN lru.items )
          => /\ last'.err = ErrBlobUnknown
             /\ last'.desc = ZeroDescriptor
             /\ lru' = lru ]_vars

\* A view missed a digest the provider has an entry for.
C12_Witness ==
    /\ last.op = "Stat"
    /\ last.repo # GlobalRepo
    /\ Validate(last.dgst) = nil
    /\ last.err = ErrBlobUnknown
    /\ GlobalStat(lru, last.dgst).err = nil

\* Clear(d) as the scope of the call c makes it.
ClearOn(l, c) ==
    IF c.repo = GlobalRepo THEN GlobalClear(l, c.dgst)
    ELSE ScopedClear(l, c.repo, c.dgst)

\* C13 -- Idempotent clear: Clear(d) with a valid d returns no error; when the
\* key of d has no entry in the addressed scope the store is left unchanged;
\* and a Clear(d) that follows a Clear(d) returns no error and changes nothing,
\* so any number of them in a row leave what the first one left.
C13_IdempotentClear ==
    [][ ( last'.op = "Clear" /\ Validate(last'.dgst) = nil )
          => /\ last'.err = nil
             /\ descriptorCacheKey(last'.dgst, last'.repo) \notin DOMAIN lru.items
                   => lru' = lru
             /\ ClearOn(lru', last') = Outcome(nil, lru')
             /\ ClearOn(ClearOn(lru, last').lru, last') = ClearOn(lru, last') ]_vars

\* A Clear of a digest that had no entry in its scope, on a store that holds
\* entries.
C13_Witness ==
    /\ last.op = "Clear"
    /\ Validate(last.dgst) = nil
    /\ ~last.known
    /\ last.err = nil
    /\ last.gone = {}
    /\ DOMAIN lru.items # {}

GlobalItems(l) == {k \in DOMAIN l.items : k.repo = GlobalRepo}

\* The global keys that are new in l2 or have another value there than in l.
GlobalWrites(l, l2) ==
    {k \in GlobalItems(l2) : k \notin DOMAIN l.items \/ l.items[k] # l2.items[k]}

\* C14 -- Scoped-view construction gate: RepositoryScoped(name) with a name
\* that cannot be normalized, the empty one included, returns the
\* invalid-name error and leaves the store alone; no view has the empty name;
\* and a call on a view takes its answer from its own key, removes no global
\* key by Clear, and writes global keys only as the forwarded SetDescriptor
\* does: the key of its digest (and of its descriptor's digest).
\* A global key leaves the store during a view's SetDescriptor only by
\* eviction from a full store.
C14_ConstructionGate ==
    [][ /\ ( last'.op = "RepositoryScoped" /\ ParseNormalizedNamed(last'.repo).err # nil )
              => ( last'.err = ErrInvalidRepositoryName /\ lru' = lru )
        /\ GlobalRepo \notin Views
        /\ \A r \in Views : RepositoryScoped(r).repo # GlobalRepo
        /\ ( last'.op = "Stat" /\ last'.repo # GlobalRepo )
              => [desc |-> last'.desc, err |-> last'.err] =
                     ScopeStat(lru, last'.repo, last'.dgst)
        /\ ( last'.op = "Clear" /\ last'.repo # GlobalRepo )
              => /\ GlobalItems(lru') = GlobalItems(lru)
                 /\ GlobalWrites(lru, lru') = {}
        /\ ( last'.op = "SetDescriptor" /\ last'.repo # GlobalRepo )
              => /\ GlobalWrites(lru, lru') \subseteq
                        {GKey(last'.dgst), GKey(last'.desc.digest)}
                 /\ \A k \in GlobalWrites(lru, lru') : lru'.items[k] = last'.desc
                 /\ GlobalItems(lru) \ GlobalItems(lru') # {}
                       => Cardinality(DOMAIN lru'.items) = lru.size ]_vars

\* The empty name was refused a view, on a store that holds entries of the
\* global scope and of a repository scope.
C14_Witness ==
    /\ last.op = "RepositoryScoped"
    /\ last.repo = <<>>
    /\ last.err = ErrInvalidRepositoryName
    /\ GlobalItems(lru) # {}
    /\ DOMAIN lru.items \ GlobalItems(lru) # {}

\* C15 (as claimed) -- Scoped writes are last-writer-wins: right after any
\* successful SetDescriptor(d, desc) on the view of R, Stat(d) on that view
\* returns exactly desc.
C15_ScopedLastWriterWins ==
    ( IsValidSet(last) /\ last.repo # GlobalRepo /\ last.err = nil )
    => ScopedStat(lru, last.repo, last.dgst) = Found(last.desc)

\* The keys SetDescriptor(dgst, desc) on the view of repo can store.
KeysOfScopedSet(repo, dgst, desc) ==
    { descriptorCacheKey(dgst, repo), GKey(dgst) }
        \cup ( IF DigestsDiffer(dgst, desc) THEN { GKey(desc.digest) } ELSE {} )

\* The store can take these keys without evicting an entry.
RoomFor(l, keys) == Cardinality(DOMAIN l.items \cup keys) <= l.size

\* C15 (as amended) -- when the store has room for the keys the call can
\* write, SetDescriptor(d, desc) on the view of R with valid d and desc returns
\* no error, Stat(d) on that view then returns exactly desc, whatever the view
\* had cached for d, and Stat(d) on the provider returns the entry d already
\* had there, or desc when it had none.
C15_ScopedLastWriterWinsWithRoom ==
    [][ ( /\ IsValidSet(last')
          /\ last'.repo # GlobalRepo
          /\ RoomFor(lru, KeysOfScopedSet(last'.repo, last'.dgst, last'.desc)) )
          => /\ last'.err = nil
             /\ ScopedStat(lru', last'.repo, last'.dgst) = Found(last'.desc)
             /\ GlobalStat(lru', last'.dgst) =
                    IF GKey(last'.dgst) \in DOMAIN lru.items
                    THEN GlobalStat(lru, last'.dgst)
                    ELSE Found(last'.desc) ]_vars

\* A view wrote a second descriptor for a digest it had cached: the view
\* returns the second, the provider still the first.
C15_Witness ==
    /\ IsValidSet(last)
    /\ last.repo # GlobalRepo
    /\ last.known
    /\ last.gone = {}
    /\ ScopedStat(lru, last.repo, last.dgst) = Found(last.desc)
    /\ GlobalStat(lru, last.dgst).err = nil
    /\ GlobalStat(lru, last.dgst).desc # last.desc
    /\ GlobalStat(lru, last.dgst).desc.digest = last.dgst

\* Every key a concurrent caller stored is still cached: nothing was evicted.
NothingEvicted(l, ld) ==
    \A i \in 1..Len(ld) : GKey(ld[i].dgst) \in DOMAIN l.items

\* An alias entry: cached under a digest other than its descriptor's own.
IsAlias(dgst, desc) == desc.digest # dgst

\* C16 -- Canonical-before-alias ordering: whenever SetDescriptor(dAlias, desc)
\* with desc.digest # dAlias stores the alias key, a store of the canonical key
\* {desc.digest, ""} has landed before it; so, as long as nothing is evicted,
\* no state a concurrent caller can observe holds an alias entry without the
\* canonical entry of its descriptor's digest.
C16_CanonicalBeforeAlias ==
    /\ \A i \in 1..Len(landed) :
           IsAlias(landed[i].dgst, landed[i].desc)
           => \E j \in 1..(i - 1) : landed[j].dgst = landed[i].desc.digest
    /\ NothingEvicted(lru, landed)
           => \A k \in DOMAIN lru.items :
                  IsAlias(k.digest, lru.items[k])
                  => GKey(lru.items[k].digest) \in DOMAIN lru.items

\* The scoped entries whose digest has no entry in the global scope.
Orphans(l) ==
    {k \in DOMAIN l.items : k.repo # GlobalRepo /\ GKey(k.digest) \notin DOMAIN l.items}

\* C17 (as claimed) -- Scoped-implies-global: in every reachable state, a
\* digest that has an entry in a repository scope has one in the global scope.
C17_ScopedImpliesGlobal == Orphans(lru) = {}

\* C17 (as amended) -- the invariant is one of write time: a successful
\* SetDescriptor(d, _) on a view leaves the global entry of d cached, and a
\* scoped entry comes to be without its global entry only by Clear(d) on the
\* provider or by the eviction of the global entry from a full store.
C17_ScopedImpliesGlobalAtWrite ==
    [][ /\ ( IsValidSet(last') /\ last'.repo # GlobalRepo /\ last'.err = nil )
              => GKey(last'.dgst) \in DOMAIN lru'.items
        /\ \A k \in Orphans(lru') \ Orphans(lru) :
              /\ k \in DOMAIN lru.items
              /\ \/ /\ last'.op = "Clear"
                    /\ last'.repo = GlobalRepo
                    /\ last'.dgst = k.digest
                 \/ /\ last'.op = "SetDescriptor"
                    /\ GKey(k.digest) \in last'.gone
                    /\ Cardinality(DOMAIN lru'.items) = lru.size ]_vars

\* Clear on the provider removed the global entry of a digest that a view
\* still has cached.
C17_Witness ==
    /\ last.op = "Clear"
    /\ last.repo = GlobalRepo
    /\ last.known
    /\ \E k \in Orphans(lru) : k.digest = last.dgst

\* The keys that are new in l2 or have another value there than in l.
Writes(l, l2) ==
    {k \in DOMAIN l2.items : k \notin DOMAIN l.items \/ l.items[k] # l2.items[k]}

\* C18 -- Stored-entry validity: every entry of the store has a key whose
\* digest passes digest validation and a descriptor that passes descriptor
\* validation, and an entry is created or changed only by a SetDescriptor call,
\* to exactly the descriptor passed to that call.
C18_StoredEntriesValid ==
    [][ /\ \A k \in DOMAIN lru'.items :
              /\ Validate(k.digest) = nil
              /\ ValidateDescriptor(lru'.items[k]) = nil
              /\ lru'.items[k].size >= 0
              /\ lru'.items[k].mediaType # ""
              /\ Validate(lru'.items[k].digest) = nil
        /\ \A k \in Writes(lru, lru') :
              /\ last'.op = "SetDescriptor"
              /\ lru'.items[k] = last'.desc ]_vars

\* A successful SetDescriptor on a store that holds an alias entry and an
\* entry of a repository scope, all of them valid.
C18_Witness ==
    /\ IsValidSet(last)
    /\ last.err = nil
    /\ \E k \in DOMAIN lru.items : IsAlias(k.digest, lru.items[k])
    /\ \E k \in DOMAIN lru.items : k.repo # GlobalRepo
    /\ \A k \in DOMAIN lru.items :
           Validate(k.digest) = nil /\ ValidateDescriptor(lru.items[k]) = nil

\* SetDescriptor without its nested call: miss check, validation, store.
SetDescriptorOnce(l, dgst, desc) ==
    LET err == GlobalStat(l, dgst).err IN
    IF err # ErrBlobUnknown THEN { Outcome(err, l) }
    ELSE IF Validate(dgst) # nil THEN { Outcome(Validate(dgst), l) }
    ELSE IF ValidateDescriptor(desc) # nil THEN { Outcome(ValidateDescriptor(desc), l) }
    ELSE { Outcome(nil, l2) :
             l2 \in LruAdd(l, descriptorCacheKey(dgst, GlobalRepo), desc) }

\* SetDescriptor as two steps, neither of which calls SetDescriptor: register
\* the canonical digest, then the alias.
SetDescriptorTwoStep(l, dgst, desc) ==
    IF GlobalStat(l, dgst).err = ErrBlobUnknown /\ DigestsDiffer(dgst, desc)
    THEN UNION { IF o.err # nil THEN { o }
                 ELSE IF Validate(dgst) # nil THEN { Outcome(Validate(dgst), o.lru) }
                 ELSE IF ValidateDescriptor(desc) # nil
                      THEN { Outcome(ValidateDescriptor(desc), o.lru) }
                 ELSE { Outcome(nil, l2) :
                          l2 \in LruAdd(o.lru, descriptorCacheKey(dgst, GlobalRepo), desc) }
               : o \in SetDescriptorOnce(l, NestedDigest(dgst, desc), desc) }
    ELSE SetDescriptorOnce(l, dgst, desc)

\* C19 -- Bounded recursion: for every digest, every descriptor and every
\* store content, SetDescriptor on the provider re-enters SetDescriptor at most
\* once, the nested call being made with the descriptor's own digest, and so
\* ends: its outcomes are those of the two steps canonical, then alias.
\* Taken on the store as each call finds it, between two calls.
C19_BoundedRecursion ==
    last = Idle =>
        \A d \in Digests, desc \in Descriptors :
            /\ SetDescriptorNesting(lru, d, desc, MaxNesting) <= 1
            /\ SetDescriptorNesting(lru, d, desc, MaxNesting) < MaxNesting
            /\ GlobalSetDescriptor(lru, d, desc) = SetDescriptorTwoStep(lru, d, desc)

\* An alias registration went through its nested call, which stored the
\* canonical entry; on the store it left, another call would nest once.
C19_Witness ==
    /\ IsValidSet(last)
    /\ last.repo = GlobalRepo
    /\ last.err = nil
    /\ ~last.known
    /\ DigestsDiffer(last.dgst, last.desc)
    /\ GlobalStat(lru, last.desc.digest) = Found(last.desc)
    /\ GlobalStat(lru, last.dgst) = Found(last.desc)
    /\ \E d \in Digests, desc \in Descriptors :
           SetDescriptorNesting(lru, d, desc, MaxNesting) = 1

\* The normalized names of the repositories views can be obtained for.
NormalizedNames == { ParseNormalizedNamed(n).named : n \in Views }

\* C20 -- Normalized scope keys: every key of a repository scope carries the
\* normalized form of the name its view was obtained with, so two views
\* obtained with names that normalize to the same repository name answer
\* Stat alike for every digest.
C20_NormalizedScopeKeys ==
    /\ \A k \in DOMAIN lru.items :
           k.repo # GlobalRepo => k.repo \in NormalizedNames
    /\ \A n1 \in Views, n2 \in Views :
           ParseNormalizedNamed(n1).named = ParseNormalizedNamed(n2).named
           => \A d \in ValidDigests :
                  ScopedStat(lru, RepositoryScoped(n1).repo, d) =
                      ScopedStat(lru, RepositoryScoped(n2).repo, d)

\* C21 -- Graceful drain on signal: with a non-zero DrainTimeout,
\* ListenAndServe returns either the error Serve returned, with Shutdown never
\* called, or, after taking a value from quit, the result of the one call of
\* Shutdown, made with a context whose deadline is DrainTimeout; with a zero
\* DrainTimeout nothing is ever taken from quit, signal.Notify and Shutdown are
\* not called, and ListenAndServe returns what Serve returns.
C21_GracefulDrain ==
    [][ /\ ( main.pc # "returned" /\ main'.pc = "returned" )
              => IF drainTimeout = 0
                 THEN /\ main.pc = "serve"
                      /\ main'.via = "serve"
                      /\ main'.ret \in ServeResults(server)
                      /\ serving = NotServing
                 ELSE \/ /\ main'.via = "serve"
                         /\ serving.pc = "send"
                         /\ main'.ret = serving.err
                         /\ server'.shutdowns = 0
                      \/ /\ main'.via = "quit"
                         /\ main.pc = "draining"
                         /\ server'.shutdowns = 1
                         /\ server'.deadline = drainTimeout
                         /\ main'.ret \in ShutdownResults(server)
        /\ server'.shutdowns # server.shutdowns
              => /\ drainTimeout # 0
                 /\ main.pc = "shutdown"
                 /\ main.via = "quit"
                 /\ server'.shutdowns = 1
                 /\ server'.deadline = drainTimeout
        /\ Len(quit') < Len(quit)
              => /\ drainTimeout # 0
                 /\ main.pc = "select"
                 /\ main'.pc = "shutdown"
                 /\ Len(quit') = Len(quit) - 1
        /\ drainTimeout = 0
              => /\ ~main'.notified
                 /\ server'.shutdowns = 0
                 /\ main'.pc \in {"start", "serve", "returned"} ]_vars

\* A signal was taken from quit, Shutdown was called once with the drain
\* timeout as its deadline, and ListenAndServe returned its result, the
\* deadline's error, with a connection still open.
C21_Witness ==
    /\ drainTimeout # 0
    /\ main.pc = "returned"
    /\ main.via = "quit"
    /\ main.ret = DeadlineExceeded
    /\ server.shutdowns = 1
    /\ server.deadline = drainTimeout
    /\ server.conns > 0

\* C22 -- No stranded serve goroutine: with a non-zero DrainTimeout, once
\* ListenAndServe has returned, the goroutine that runs Serve and sends its
\* result on serveErr terminates, also when ListenAndServe returned through the
\* quit branch.
C22_NoStrandedServe ==
    ( drainTimeout # 0 /\ main.pc = "returned" ) ~> ( serving.pc = "done" )

====
